---- MODULE Spec2Model ----
(***************************************************************************)
(* Per-block operations processing of the beacon chain state transition:   *)
(* consensus/state_processing/src/per_block_processing/                    *)
(* process_operations.rs.                                                  *)
(*                                                                         *)
(* A run is one call of process_operations on a beacon state and one block *)
(* body.  Every action processes one record of one operation list (or one  *)
(* phase of process_deposits), so the intermediate states of a block are   *)
(* visible.  Validator indices are zero-based as in the source; the        *)
(* element of a list with index i is list[i + 1].                          *)
(***************************************************************************)
EXTENDS Integers, Sequences, FiniteSets, TLC

(***************************************************************************)
(* Bounds of the model.                                                    *)
(***************************************************************************)
\* validators in the registry before the block
NumValidators == 4
\* operations of all kinds in one block body
MaxOps == 2
\* T::MaxDeposits, the per-block deposit cap, scaled down
MaxDeposits == 2
\* deposits already processed before the block (state.eth1_deposit_index)
InitialDepositIndex == 1

(***************************************************************************)
(* Program constants (types::consts::altair).                              *)
(***************************************************************************)
TIMELY_SOURCE_FLAG_INDEX == 0
TIMELY_TARGET_FLAG_INDEX == 1
TIMELY_HEAD_FLAG_INDEX == 2
PARTICIPATION_FLAG_WEIGHTS == <<14, 26, 14>>
PROPOSER_WEIGHT == 8
WEIGHT_DENOMINATOR == 64

(***************************************************************************)
(* The chain configuration (ChainSpec / EthSpec), a small test network:    *)
(* balances are in units of 1/8 of an effective balance increment.         *)
(***************************************************************************)
far_future_epoch == 1000
effective_balance_increment == 8
max_effective_balance == 32
base_reward_factor == 6
slots_per_epoch == 4
min_attestation_inclusion_delay == 1
max_seed_lookahead == 1
min_validator_withdrawability_delay == 2
shard_committee_period == 1
epochs_per_slashings_vector == 4
min_slashing_penalty_quotient == 8
whistleblower_reward_quotient == 4
proposer_reward_quotient == 8
churn_limit_quotient == 2
min_per_epoch_churn_limit == 1
\* the slot of the state the block is applied to: epoch 2
StateSlot == 9

Forks == {"Base", "Altair", "Merge", "Capella", "Deneb"}

NoIndex == -1

(***************************************************************************)
(* Small helpers.                                                          *)
(***************************************************************************)
Min(a, b) == IF a <= b THEN a ELSE b
Max(a, b) == IF a >= b THEN a ELSE b

At(list, i) == list[i + 1]

InBounds(list, i) == i >= 0 /\ i < Len(list)

SetAt(list, i, v) == [list EXCEPT ![i + 1] = v]

RECURSIVE SumOver(_, _)
SumOver(f, S) ==
  IF S = {} THEN 0
  ELSE LET x == CHOOSE y \in S : TRUE IN f[x] + SumOver(f, S \ {x})

RECURSIVE SortedSeq(_)
SortedSeq(S) ==
  IF S = {} THEN <<>>
  ELSE LET m == CHOOSE x \in S : \A y \in S : x <= y
       IN <<m>> \o SortedSeq(S \ {m})

\* integer_sqrt of the consensus specification
isqrt(n) == CHOOSE r \in 0..n : r * r <= n /\ (r + 1) * (r + 1) > n

(***************************************************************************)
(* Results.  A BlockProcessingError is its operation kind, its reason and  *)
(* the index into_with_index attached (NoIndex when the error was          *)
(* converted with `?` alone).                                              *)
(***************************************************************************)
OkResult ==
  [ok |-> TRUE, kind |-> "Ok", reason |-> "", index |-> NoIndex,
   expected |-> NoIndex, found |-> NoIndex]

Error(kind, reason) ==
  [ok |-> FALSE, kind |-> kind, reason |-> reason, index |-> NoIndex,
   expected |-> NoIndex, found |-> NoIndex]

DepositCountInvalid(expected, found) ==
  [Error("DepositCountInvalid", "") EXCEPT !.expected = expected, !.found = found]

into_with_index(e, i) == [e EXCEPT !.index = i]

(***************************************************************************)
(* Beacon state accessors.  The state bs is a record:                      *)
(*   fork                          the state's variant                     *)
(*   slot                                                                  *)
(*   validators, balances          index-aligned lists                     *)
(*   previous_epoch_participation, current_epoch_participation,            *)
(*   inactivity_scores             Altair and later (else empty, absent)   *)
(*   previous_epoch_attestations, current_epoch_attestations   Base only   *)
(*   eth1_deposit_index, eth1_deposit_count                                *)
(*   slashings                     the slashings vector at current epoch   *)
(*   progressive_previous, progressive_current                             *)
(*                                 target attesting balances of the        *)
(*                                 progressive balances cache              *)
(*   proposer_index                the block's proposer (ConsensusContext) *)
(***************************************************************************)
is_altair_or_later(fork) == fork # "Base"

has_bls_to_execution_changes(fork) == fork \in {"Capella", "Deneb"}

current_epoch(bs) == bs.slot \div slots_per_epoch

previous_epoch(bs) ==
  IF current_epoch(bs) > 0 THEN current_epoch(bs) - 1 ELSE current_epoch(bs)

ValidatorIndices(bs) == 0..(Len(bs.validators) - 1)

is_active_validator(v, epoch) ==
  v.activation_epoch <= epoch /\ epoch < v.exit_epoch

is_slashable_validator(v, epoch) ==
  ~v.slashed /\ v.activation_epoch <= epoch /\ epoch < v.withdrawable_epoch

get_active_validator_indices(bs, epoch) ==
  {i \in ValidatorIndices(bs) : is_active_validator(At(bs.validators, i), epoch)}

get_total_active_balance(bs) ==
  Max(effective_balance_increment,
      SumOver([i \in ValidatorIndices(bs) |-> At(bs.validators, i).effective_balance],
              get_active_validator_indices(bs, current_epoch(bs))))

get_churn_limit(bs) ==
  Max(min_per_epoch_churn_limit,
      Cardinality(get_active_validator_indices(bs, current_epoch(bs)))
        \div churn_limit_quotient)

compute_activation_exit_epoch(epoch) == epoch + 1 + max_seed_lookahead

get_outstanding_deposit_len(bs) == bs.eth1_deposit_count - bs.eth1_deposit_index

\* BaseRewardPerIncrement::new
base_reward_per_increment(total_active_balance) ==
  (effective_balance_increment * base_reward_factor) \div isqrt(total_active_balance)

\* altair::get_base_reward
get_base_reward(bs, index, per_increment) ==
  (At(bs.validators, index).effective_balance \div effective_balance_increment)
    * per_increment

\* ConsensusContext::get_proposer_index
get_proposer_index(bs) == bs.proposer_index

(***************************************************************************)
(* Balance primitives (common::increase_balance, decrease_balance).        *)
(***************************************************************************)
increase_balance(bs, index, delta) ==
  [bs EXCEPT !.balances = SetAt(bs.balances, index, At(bs.balances, index) + delta)]

decrease_balance(bs, index, delta) ==
  [bs EXCEPT !.balances =
     SetAt(bs.balances, index, Max(0, At(bs.balances, index) - delta))]

(***************************************************************************)
(* Validator lifecycle helpers (common::initiate_validator_exit,           *)
(* common::slash_validator).                                               *)
(***************************************************************************)
ExitEpochs(bs) ==
  {At(bs.validators, i).exit_epoch : i \in ValidatorIndices(bs)} \ {far_future_epoch}

MaxOf(S) == CHOOSE m \in S : \A x \in S : x <= m

get_churn_at(bs, epoch) ==
  Cardinality({i \in ValidatorIndices(bs) : At(bs.validators, i).exit_epoch = epoch})

exit_queue_epoch(bs) ==
  LET delayed == compute_activation_exit_epoch(current_epoch(bs))
      queue == IF ExitEpochs(bs) = {} THEN delayed
               ELSE Max(MaxOf(ExitEpochs(bs)), delayed)
  IN IF get_churn_at(bs, queue) >= get_churn_limit(bs) THEN queue + 1 ELSE queue

initiate_validator_exit(bs, index) ==
  LET v == At(bs.validators, index)
      e == exit_queue_epoch(bs)
  IN IF v.exit_epoch # far_future_epoch THEN bs
     ELSE [bs EXCEPT !.validators =
             SetAt(bs.validators, index,
                   [v EXCEPT !.exit_epoch = e,
                             !.withdrawable_epoch =
                                e + min_validator_withdrawability_delay])]

slash_validator(bs, slashed_index) ==
  LET epoch == current_epoch(bs)
      s1 == initiate_validator_exit(bs, slashed_index)
      v == At(s1.validators, slashed_index)
      s2 == [s1 EXCEPT
               !.validators =
                 SetAt(s1.validators, slashed_index,
                       [v EXCEPT !.slashed = TRUE,
                                 !.withdrawable_epoch =
                                    Max(v.withdrawable_epoch,
                                        epoch + epochs_per_slashings_vector)]),
               !.slashings = s1.slashings + v.effective_balance]
      s3 == decrease_balance(s2, slashed_index,
                             v.effective_balance \div min_slashing_penalty_quotient)
      whistleblower_reward == v.effective_balance \div whistleblower_reward_quotient
      proposer_reward ==
        IF s3.fork = "Base"
        THEN whistleblower_reward \div proposer_reward_quotient
        ELSE (whistleblower_reward * PROPOSER_WEIGHT) \div WEIGHT_DENOMINATOR
      s4 == increase_balance(s3, get_proposer_index(s3), proposer_reward)
  IN increase_balance(s4, get_proposer_index(s4),
                      whistleblower_reward - proposer_reward)

(***************************************************************************)
(* Verification predicates of the operation kinds.  A signature is the     *)
(* record's sig_ok; verify_signatures = FALSE skips the signature checks.  *)
(***************************************************************************)
\* hash of a BLS withdrawal key, the body of a legacy withdrawal credential
Hash(key) == (key * 5 + 3) % 17

BlsCredentials(key) == [prefix |-> "bls", body |-> Hash(key)]

Eth1Credentials(address) == [prefix |-> "eth1", body |-> address]

verify_proposer_slashing(proposer_slashing, bs, verify_signatures) ==
  LET index == proposer_slashing.proposer_index
      fail(reason) == Error("ProposerSlashingInvalid", reason)
  IN IF ~proposer_slashing.slashable_headers THEN fail("ProposalsNotSlashable")
     ELSE IF ~InBounds(bs.validators, index) THEN fail("ProposerUnknown")
     ELSE IF ~is_slashable_validator(At(bs.validators, index), current_epoch(bs))
       THEN fail("ProposerNotSlashable")
     ELSE IF verify_signatures /\ ~proposer_slashing.sig_ok
       THEN fail("BadProposalSignature")
     ELSE OkResult

verify_attester_slashing(bs, attester_slashing, verify_signatures) ==
  LET fail(reason) == Error("AttesterSlashingInvalid", reason)
  IN IF ~attester_slashing.slashable_data THEN fail("NotSlashable")
     ELSE IF attester_slashing.attesting_indices_1 = {}
             \/ attester_slashing.attesting_indices_2 = {}
       THEN fail("IndexedAttestationInvalid")
     ELSE IF verify_signatures /\ ~attester_slashing.sig_ok
       THEN fail("IndexedAttestationInvalid")
     ELSE OkResult

\* Ok with the sorted slashable indices, or the error
get_slashable_indices(bs, attester_slashing) ==
  LET common == attester_slashing.attesting_indices_1
                  \cap attester_slashing.attesting_indices_2
      slashable == {i \in common :
                      InBounds(bs.validators, i)
                      /\ is_slashable_validator(At(bs.validators, i), current_epoch(bs))}
  IN IF \E i \in common : ~InBounds(bs.validators, i)
       THEN [result |-> Error("AttesterSlashingInvalid", "UnknownValidator"),
             indices |-> <<>>]
     ELSE IF slashable = {}
       THEN [result |-> Error("AttesterSlashingInvalid", "NoSlashableIndices"),
             indices |-> <<>>]
     ELSE [result |-> OkResult, indices |-> SortedSeq(slashable)]

verify_attestation_for_block_inclusion(bs, attestation, verify_signatures) ==
  LET data == attestation.data
      fail(reason) == Error("AttestationInvalid", reason)
  IN IF data.slot + min_attestation_inclusion_delay > bs.slot
       THEN fail("IncludedTooEarly")
     ELSE IF bs.fork # "Deneb" /\ bs.slot > data.slot + slots_per_epoch
       THEN fail("IncludedTooLate")
     ELSE IF data.target_epoch \notin {previous_epoch(bs), current_epoch(bs)}
       THEN fail("BadTargetEpoch")
     ELSE IF data.target_epoch # data.slot \div slots_per_epoch
       THEN fail("TargetEpochSlotMismatch")
     ELSE IF ~data.source_matches THEN fail("WrongJustifiedCheckpoint")
     ELSE IF attestation.attesting_indices = {}
             \/ \E i \in attestation.attesting_indices : ~InBounds(bs.validators, i)
       THEN fail("BadIndexedAttestation")
     ELSE IF verify_signatures /\ ~attestation.sig_ok THEN fail("BadSignature")
     ELSE OkResult

get_attestation_participation_flag_indices(bs, data, inclusion_delay) ==
  LET is_matching_target == data.target_matches
      is_matching_head == is_matching_target /\ data.head_matches
  IN (IF inclusion_delay <= isqrt(slots_per_epoch)
        THEN {TIMELY_SOURCE_FLAG_INDEX} ELSE {})
     \cup (IF is_matching_target
              /\ (bs.fork = "Deneb" \/ inclusion_delay <= slots_per_epoch)
             THEN {TIMELY_TARGET_FLAG_INDEX} ELSE {})
     \cup (IF is_matching_head /\ inclusion_delay = min_attestation_inclusion_delay
             THEN {TIMELY_HEAD_FLAG_INDEX} ELSE {})

verify_deposit_merkle_proof(bs, deposit, deposit_index) ==
  IF deposit.proof_index = deposit_index THEN OkResult
  ELSE Error("DepositInvalid", "BadMerkleProof")

verify_deposit_signature(deposit) == deposit.sig_ok

\* the index of the validator with this public key, or NoIndex
get_existing_validator_index(bs, pubkey) ==
  IF \E i \in ValidatorIndices(bs) : At(bs.validators, i).pubkey = pubkey
  THEN CHOOSE i \in ValidatorIndices(bs) : At(bs.validators, i).pubkey = pubkey
  ELSE NoIndex

verify_exit(bs, exit, verify_signatures) ==
  LET index == exit.validator_index
      fail(reason) == Error("ExitInvalid", reason)
  IN IF ~InBounds(bs.validators, index) THEN fail("ValidatorUnknown")
     ELSE IF ~is_active_validator(At(bs.validators, index), current_epoch(bs))
       THEN fail("NotActive")
     ELSE IF At(bs.validators, index).exit_epoch # far_future_epoch
       THEN fail("AlreadyExited")
     ELSE IF current_epoch(bs) < exit.epoch THEN fail("FutureEpoch")
     ELSE IF current_epoch(bs)
               < At(bs.validators, index).activation_epoch + shard_committee_period
       THEN fail("TooYoungToExit")
     ELSE IF verify_signatures /\ ~exit.sig_ok THEN fail("BadSignature")
     ELSE OkResult

verify_bls_to_execution_change(bs, change, verify_signatures) ==
  LET index == change.validator_index
      fail(reason) == Error("BlsExecutionChangeInvalid", reason)
  IN IF ~InBounds(bs.validators, index) THEN fail("ValidatorUnknown")
     ELSE IF At(bs.validators, index).withdrawal_credentials.prefix # "bls"
       THEN fail("NonBlsWithdrawalCredentials")
     ELSE IF At(bs.validators, index).withdrawal_credentials.body
               # Hash(change.from_bls_pubkey)
       THEN fail("WithdrawalCredentialsMismatch")
     ELSE IF verify_signatures /\ ~change.sig_ok THEN fail("BadSignature")
     ELSE OkResult

change_withdrawal_credentials(v, to_execution_address) ==
  [v EXCEPT !.withdrawal_credentials = Eth1Credentials(to_execution_address)]

(***************************************************************************)
(* The processors, one record at a time.  Each returns the new beacon      *)
(* state and the Result of the iteration; on an error the state is what    *)
(* the iteration had written before it returned.                           *)
(***************************************************************************)
Step(bs, result) == [bs |-> bs, result |-> result]

\* a closure that verifies the slashing and does not slash the validator
verify_only_proposer_slashing(bs, proposer_slashing, i, verify_signatures) ==
  LET verified == verify_proposer_slashing(proposer_slashing, bs, verify_signatures)
  IN IF ~verified.ok THEN Step(bs, into_with_index(verified, i))
     ELSE Step(bs, OkResult)

\* the closure of process_proposer_slashings
process_proposer_slashing(bs, proposer_slashing, i, verify_signatures) ==
  LET verified == verify_proposer_slashing(proposer_slashing, bs, verify_signatures)
  IN IF ~verified.ok THEN Step(bs, into_with_index(verified, i))
     ELSE Step(slash_validator(bs, proposer_slashing.proposer_index), OkResult)

RECURSIVE slash_each(_, _)
slash_each(bs, indices) ==
  IF indices = <<>> THEN bs
  ELSE slash_each(slash_validator(bs, Head(indices)), Tail(indices))

\* a loop body that slashes every validator common to the two attestations,
\* slashed already or not
process_attester_slashing_all_common(bs, attester_slashing, i, verify_signatures) ==
  LET verified == verify_attester_slashing(bs, attester_slashing, verify_signatures)
      slashable == get_slashable_indices(bs, attester_slashing)
      common == attester_slashing.attesting_indices_1
                  \cap attester_slashing.attesting_indices_2
  IN IF ~verified.ok THEN Step(bs, into_with_index(verified, i))
     ELSE IF ~slashable.result.ok THEN Step(bs, into_with_index(slashable.result, i))
     ELSE Step(slash_each(bs, SortedSeq(common)), OkResult)

\* the loop body of process_attester_slashings
process_attester_slashing(bs, attester_slashing, i, verify_signatures) ==
  LET verified == verify_attester_slashing(bs, attester_slashing, verify_signatures)
      slashable == get_slashable_indices(bs, attester_slashing)
  IN IF ~verified.ok THEN Step(bs, into_with_index(verified, i))
     ELSE IF ~slashable.result.ok THEN Step(bs, into_with_index(slashable.result, i))
     ELSE Step(slash_each(bs, slashable.indices), OkResult)

\* a legacy loop body that picks the other list
base_process_attestation_swapped(bs, attestation, i, verify_signatures) ==
  LET verified == verify_attestation_for_block_inclusion(bs, attestation, verify_signatures)
      pending_attestation ==
        [aggregation_bits |-> attestation.attesting_indices,
         data |-> attestation.data,
         inclusion_delay |-> bs.slot - attestation.data.slot,
         proposer_index |-> get_proposer_index(bs)]
  IN IF ~verified.ok THEN Step(bs, into_with_index(verified, i))
     ELSE IF bs.fork # "Base"
       THEN Step(bs, Error("BeaconStateError", "IncorrectStateVariant"))
     ELSE IF attestation.data.target_epoch = current_epoch(bs)
       THEN Step([bs EXCEPT !.previous_epoch_attestations =
                               Append(@, pending_attestation)], OkResult)
     ELSE Step([bs EXCEPT !.current_epoch_attestations =
                             Append(@, pending_attestation)], OkResult)

\* the loop body of base::process_attestations
base_process_attestation(bs, attestation, i, verify_signatures) ==
  LET verified == verify_attestation_for_block_inclusion(bs, attestation, verify_signatures)
      pending_attestation ==
        [aggregation_bits |-> attestation.attesting_indices,
         data |-> attestation.data,
         inclusion_delay |-> bs.slot - attestation.data.slot,
         proposer_index |-> get_proposer_index(bs)]
  IN IF ~verified.ok THEN Step(bs, into_with_index(verified, i))
     ELSE IF bs.fork # "Base"
       THEN Step(bs, Error("BeaconStateError", "IncorrectStateVariant"))
     ELSE IF attestation.data.target_epoch = current_epoch(bs)
       THEN Step([bs EXCEPT !.current_epoch_attestations =
                               Append(@, pending_attestation)], OkResult)
     ELSE Step([bs EXCEPT !.previous_epoch_attestations =
                             Append(@, pending_attestation)], OkResult)

\* an inner loop turn that stores the new flag alone in place of adding it
process_flag_overwriting(acc, data, index, flag_index, participation_flag_indices, per_increment) ==
  LET bs == acc.bs
      in_current == data.target_epoch = current_epoch(bs)
      epoch_participation ==
        IF in_current THEN bs.current_epoch_participation
        ELSE bs.previous_epoch_participation
      validator_participation == At(epoch_participation, index)
      added == SetAt(epoch_participation, index, {flag_index})
      s1 == IF in_current THEN [bs EXCEPT !.current_epoch_participation = added]
            ELSE [bs EXCEPT !.previous_epoch_participation = added]
  IN IF flag_index \in participation_flag_indices
        /\ flag_index \notin validator_participation
     THEN [bs |-> s1,
           numerator |-> acc.numerator
             + get_base_reward(bs, index, per_increment)
                 * PARTICIPATION_FLAG_WEIGHTS[flag_index + 1]]
     ELSE acc

\* an inner loop turn that rewards a flag whether or not it was already set
process_flag_rewarding_again(acc, data, index, flag_index, participation_flag_indices, per_increment) ==
  LET bs == acc.bs
      in_current == data.target_epoch = current_epoch(bs)
      epoch_participation ==
        IF in_current THEN bs.current_epoch_participation
        ELSE bs.previous_epoch_participation
      validator_participation == At(epoch_participation, index)
      added == SetAt(epoch_participation, index,
                     validator_participation \cup {flag_index})
      s1 == IF in_current THEN [bs EXCEPT !.current_epoch_participation = added]
            ELSE [bs EXCEPT !.previous_epoch_participation = added]
  IN IF flag_index \in participation_flag_indices
     THEN [bs |-> s1,
           numerator |-> acc.numerator
             + get_base_reward(bs, index, per_increment)
                 * PARTICIPATION_FLAG_WEIGHTS[flag_index + 1]]
     ELSE acc

\* one turn of the inner loop of altair_deneb::process_attestation: the
\* accumulator acc is the state and the proposer reward numerator
process_flag(acc, data, index, flag_index, participation_flag_indices, per_increment) ==
  LET bs == acc.bs
      in_current == data.target_epoch = current_epoch(bs)
      epoch_participation ==
        IF in_current THEN bs.current_epoch_participation
        ELSE bs.previous_epoch_participation
      validator_participation == At(epoch_participation, index)
      added == SetAt(epoch_participation, index,
                     validator_participation \cup {flag_index})
      s1 == IF in_current THEN [bs EXCEPT !.current_epoch_participation = added]
            ELSE [bs EXCEPT !.previous_epoch_participation = added]
      v == At(bs.validators, index)
      s2 == IF flag_index = TIMELY_TARGET_FLAG_INDEX /\ ~v.slashed
            THEN IF in_current
                 THEN [s1 EXCEPT !.progressive_current = @ + v.effective_balance]
                 ELSE [s1 EXCEPT !.progressive_previous = @ + v.effective_balance]
            ELSE s1
  IN IF flag_index \in participation_flag_indices
        /\ flag_index \notin validator_participation
     THEN [bs |-> s2,
           numerator |-> acc.numerator
             + get_base_reward(bs, index, per_increment)
                 * PARTICIPATION_FLAG_WEIGHTS[flag_index + 1]]
     ELSE acc

RECURSIVE process_flags(_, _, _, _, _, _)
process_flags(acc, data, index, flag_index, participation_flag_indices, per_increment) ==
  IF flag_index >= Len(PARTICIPATION_FLAG_WEIGHTS) THEN acc
  ELSE process_flags(
         process_flag(acc, data, index, flag_index, participation_flag_indices,
                      per_increment),
         data, index, flag_index + 1, participation_flag_indices, per_increment)

RECURSIVE process_attesting_indices(_, _, _, _, _)
process_attesting_indices(acc, data, indices, participation_flag_indices, per_increment) ==
  IF indices = <<>> THEN acc
  ELSE process_attesting_indices(
         process_flags(acc, data, Head(indices), 0, participation_flag_indices,
                       per_increment),
         data, Tail(indices), participation_flag_indices, per_increment)

proposer_reward_denominator ==
  ((WEIGHT_DENOMINATOR - PROPOSER_WEIGHT) * WEIGHT_DENOMINATOR) \div PROPOSER_WEIGHT

\* a reward that is rounded up
proposer_reward_rounded_up(numerator) ==
  (numerator + proposer_reward_denominator - 1) \div proposer_reward_denominator

\* the reward credited for one numerator
proposer_reward_of(numerator) == numerator \div proposer_reward_denominator

\* altair_deneb::process_attestation
altair_process_attestation(bs, attestation, att_index, verify_signatures) ==
  LET verified == verify_attestation_for_block_inclusion(bs, attestation, verify_signatures)
      data == attestation.data
      inclusion_delay == bs.slot - data.slot
      participation_flag_indices ==
        get_attestation_participation_flag_indices(bs, data, inclusion_delay)
      per_increment == base_reward_per_increment(get_total_active_balance(bs))
      done == process_attesting_indices(
                [bs |-> bs, numerator |-> 0], data,
                SortedSeq(attestation.attesting_indices),
                participation_flag_indices, per_increment)
  IN IF ~verified.ok THEN Step(bs, into_with_index(verified, att_index))
     ELSE IF ~is_altair_or_later(bs.fork)
       THEN Step(bs, Error("BeaconStateError", "IncorrectStateVariant"))
     ELSE Step(increase_balance(done.bs, get_proposer_index(bs),
                                proposer_reward_of(done.numerator)),
               OkResult)

\* a dispatch that keeps the legacy variant for Altair bodies
attestation_variant_legacy_altair(body_fork) ==
  IF body_fork \in {"Base", "Altair"} THEN "base" ELSE "altair_deneb"

\* the variant process_attestations runs for a block body of this fork
attestation_variant(body_fork) ==
  IF body_fork = "Base" THEN "base" ELSE "altair_deneb"

\* one attestation under the dispatch of process_attestations
process_attestation(bs, body_fork, attestation, i, verify_signatures) ==
  IF attestation_variant(body_fork) = "base"
  THEN base_process_attestation(bs, attestation, i, verify_signatures)
  ELSE altair_process_attestation(bs, attestation, i, verify_signatures)

\* a new validator that is active from genesis on
new_validator_active(deposit) ==
  [pubkey |-> deposit.pubkey,
   withdrawal_credentials |-> deposit.withdrawal_credentials,
   activation_eligibility_epoch |-> 0,
   activation_epoch |-> 0,
   exit_epoch |-> far_future_epoch,
   withdrawable_epoch |-> far_future_epoch,
   effective_balance |->
     Min(deposit.amount - (deposit.amount % effective_balance_increment),
         max_effective_balance),
   slashed |-> FALSE]

new_validator(deposit) ==
  [pubkey |-> deposit.pubkey,
   withdrawal_credentials |-> deposit.withdrawal_credentials,
   activation_eligibility_epoch |-> far_future_epoch,
   activation_epoch |-> far_future_epoch,
   exit_epoch |-> far_future_epoch,
   withdrawable_epoch |-> far_future_epoch,
   effective_balance |->
     Min(deposit.amount - (deposit.amount % effective_balance_increment),
         max_effective_balance),
   slashed |-> FALSE]

\* a validator creation that forgets the inactivity score
push_validator_without_score(bs, deposit) ==
  LET s1 == [bs EXCEPT !.validators = Append(@, new_validator(deposit)),
                       !.balances = Append(@, deposit.amount)]
  IN IF is_altair_or_later(s1.fork)
     THEN [s1 EXCEPT !.previous_epoch_participation = Append(@, {}),
                     !.current_epoch_participation = Append(@, {})]
     ELSE s1

\* the validator creation branch of process_deposit
push_validator(bs, deposit) ==
  LET s1 == [bs EXCEPT !.validators = Append(@, new_validator(deposit)),
                       !.balances = Append(@, deposit.amount)]
  IN IF is_altair_or_later(s1.fork)
     THEN [s1 EXCEPT !.previous_epoch_participation = Append(@, {}),
                     !.current_epoch_participation = Append(@, {}),
                     !.inactivity_scores = Append(@, 0)]
     ELSE s1

\* a process_deposit that checks the signature before it looks for the
\* validator
process_deposit_signature_first(bs, deposit, verify_merkle_proof) ==
  LET deposit_index == bs.eth1_deposit_index
      proof == verify_deposit_merkle_proof(bs, deposit, bs.eth1_deposit_index)
      s1 == [bs EXCEPT !.eth1_deposit_index = @ + 1]
      validator_index == get_existing_validator_index(s1, deposit.pubkey)
      amount == deposit.amount
  IN IF verify_merkle_proof /\ ~proof.ok
       THEN Step(bs, into_with_index(proof, deposit_index))
     ELSE IF ~verify_deposit_signature(deposit) THEN Step(s1, OkResult)
     ELSE IF validator_index # NoIndex
       THEN Step(increase_balance(s1, validator_index, amount), OkResult)
     ELSE Step(push_validator(s1, deposit), OkResult)

\* a process_deposit that raises an error for an invalid deposit signature
process_deposit_rejecting_signature(bs, deposit, verify_merkle_proof) ==
  LET deposit_index == bs.eth1_deposit_index
      proof == verify_deposit_merkle_proof(bs, deposit, bs.eth1_deposit_index)
      s1 == [bs EXCEPT !.eth1_deposit_index = @ + 1]
      validator_index == get_existing_validator_index(s1, deposit.pubkey)
      amount == deposit.amount
  IN IF verify_merkle_proof /\ ~proof.ok
       THEN Step(bs, into_with_index(proof, deposit_index))
     ELSE IF validator_index # NoIndex
       THEN Step(increase_balance(s1, validator_index, amount), OkResult)
     ELSE IF ~verify_deposit_signature(deposit)
       THEN Step(s1, into_with_index(Error("DepositInvalid", "BadSignature"),
                                     deposit_index))
     ELSE Step(push_validator(s1, deposit), OkResult)

process_deposit(bs, deposit, verify_merkle_proof) ==
  LET deposit_index == bs.eth1_deposit_index
      proof == verify_deposit_merkle_proof(bs, deposit, bs.eth1_deposit_index)
      s1 == [bs EXCEPT !.eth1_deposit_index = @ + 1]
      validator_index == get_existing_validator_index(s1, deposit.pubkey)
      amount == deposit.amount
  IN IF verify_merkle_proof /\ ~proof.ok
       THEN Step(bs, into_with_index(proof, deposit_index))
     ELSE IF validator_index # NoIndex
       THEN Step(increase_balance(s1, validator_index, amount), OkResult)
     ELSE IF ~verify_deposit_signature(deposit) THEN Step(s1, OkResult)
     ELSE Step(push_validator(s1, deposit), OkResult)

\* a loop body that verifies the exit and does not initiate it
verify_only_exit(bs, exit, i, verify_signatures) ==
  LET verified == verify_exit(bs, exit, verify_signatures)
  IN IF ~verified.ok THEN Step(bs, into_with_index(verified, i))
     ELSE Step(bs, OkResult)

\* a loop body that schedules every exit at the earliest epoch, whatever the
\* exits already scheduled there
process_exit_without_queue(bs, exit, i, verify_signatures) ==
  LET verified == verify_exit(bs, exit, verify_signatures)
      v == At(bs.validators, exit.validator_index)
      e == compute_activation_exit_epoch(current_epoch(bs))
  IN IF ~verified.ok THEN Step(bs, into_with_index(verified, i))
     ELSE Step([bs EXCEPT !.validators =
                  SetAt(bs.validators, exit.validator_index,
                        [v EXCEPT !.exit_epoch = e,
                                  !.withdrawable_epoch =
                                     e + min_validator_withdrawability_delay])],
               OkResult)

\* the loop body of process_exits
process_exit(bs, exit, i, verify_signatures) ==
  LET verified == verify_exit(bs, exit, verify_signatures)
  IN IF ~verified.ok THEN Step(bs, into_with_index(verified, i))
     ELSE Step(initiate_validator_exit(bs, exit.validator_index), OkResult)

\* a loop body that verifies the address change and does not write it
verify_only_bls_to_execution_change(bs, change, i, verify_signatures) ==
  LET verified == verify_bls_to_execution_change(bs, change, verify_signatures)
  IN IF ~verified.ok THEN Step(bs, into_with_index(verified, i))
     ELSE Step(bs, OkResult)

\* the loop body of process_bls_to_execution_changes
process_bls_to_execution_change(bs, change, i, verify_signatures) ==
  LET verified == verify_bls_to_execution_change(bs, change, verify_signatures)
      index == change.validator_index
  IN IF ~verified.ok THEN Step(bs, into_with_index(verified, i))
     ELSE Step([bs EXCEPT !.validators =
                  SetAt(bs.validators, index,
                        change_withdrawal_credentials(At(bs.validators, index),
                                                      change.to_execution_address))],
               OkResult)

\* a count check that forgets the cap of deposits per block
expected_deposit_len_without_cap(bs) == get_outstanding_deposit_len(bs)

\* the deposit count process_deposits expects
expected_deposit_len(bs) == Min(MaxDeposits, get_outstanding_deposit_len(bs))

(***************************************************************************)
(* The run of process_operations.                                          *)
(*                                                                         *)
(* block, verify_signatures   the inputs, fixed in the initial state       *)
(* state   the run: its position (pc, i), whether it has returned and its  *)
(*         Result, the beacon state bs it mutates in place, the beacon     *)
(*         parallel proof checks of process_deposits, and the history      *)
(*         fields: entries, the beacon state at the call of each stage;    *)
(*         applied, the records applied so far; slash_log, the arguments   *)
(*         of the calls of slash_validator; raised, the errors raised      *)
(* clone   an independent copy of the run, taken before the call           *)
(***************************************************************************)
VARIABLES block, verify_signatures, state, clone

vars == <<block, verify_signatures, state, clone>>

ListStages ==
  <<"proposer_slashings", "attester_slashings", "attestations", "deposits",
    "voluntary_exits", "bls_to_execution_changes">>

\* the operation list of a stage
ops_of(blk, stage) ==
  CASE stage = "proposer_slashings" -> blk.proposer_slashings
    [] stage = "attester_slashings" -> blk.attester_slashings
    [] stage = "attestations" -> blk.attestations
    [] stage \in {"deposits", "deposit_proofs", "deposit_apply", "process_deposit"}
         -> blk.deposits
    [] stage = "voluntary_exits" -> blk.voluntary_exits
    [] stage = "bls_to_execution_changes" -> blk.bls_to_execution_changes
    [] OTHER -> <<>>

\* the call process_operations makes after the call of this stage returned Ok
next_stage(stage) ==
  CASE stage = "start" -> "proposer_slashings"
    [] stage = "proposer_slashings" -> "attester_slashings"
    [] stage = "attester_slashings" -> "attestations"
    [] stage = "attestations" -> "deposits"
    [] stage \in {"deposits", "deposit_proofs", "deposit_apply"} -> "voluntary_exits"
    [] stage = "voluntary_exits" -> "bls_to_execution_changes"
    [] OTHER -> "done"

\* a process_operations that drops the `?` after its calls
returns_never(result) == FALSE

\* what `?` does with a Result: an Err returns from process_operations
returns_on(result) == ~result.ok

\* `result?`: return the error, or go on as `continued`; an error is noted in
\* the history field raised
try(run, result, continued) ==
  IF result.ok THEN continued
  ELSE IF returns_on(result)
    THEN [run EXCEPT !.returned = TRUE, !.result = result,
                     !.raised = Append(@, result)]
  ELSE [continued EXCEPT !.raised = Append(@, result)]

\* the key of a stage in the history field entries
stage_key(stage) ==
  IF stage \in {"deposit_proofs", "deposit_apply"} THEN "deposits" ELSE stage

\* Enter a stage, that is call its processor: a processor whose list is empty
\* returns Ok at once, and process_deposits always runs its count check.
RECURSIVE enter(_, _, _)
enter(run, blk, stage) ==
  LET called == [run EXCEPT !.pc = stage, !.i = 0,
                            !.entries = (stage :> run.bs) @@ run.entries]
  IN IF stage = "done"
       THEN [run EXCEPT !.pc = "done", !.i = 0, !.returned = TRUE, !.result = OkResult]
     ELSE IF stage = "deposits" THEN called
     ELSE IF stage = "bls_to_execution_changes"
             /\ ~has_bls_to_execution_changes(blk.fork)
       THEN enter(run, blk, next_stage(stage))
     ELSE IF ops_of(blk, stage) = <<>> THEN enter(called, blk, next_stage(stage))
     ELSE called

\* The run after one record of the current list was processed.
after(run, blk, step, slashed) ==
  LET r1 == [run EXCEPT !.bs = step.bs, !.i = run.i + 1,
                        !.applied = Append(@, <<run.pc, run.i>>),
                        !.slash_log = @ \o slashed]
  IN try([run EXCEPT !.bs = step.bs], step.result,
         IF r1.i < Len(ops_of(blk, run.pc)) THEN r1
         ELSE enter(r1, blk, next_stage(run.pc)))

Running(s, stage) == ~s.returned /\ s.pc = stage

ProposerSlashingStep(s, t) ==
  /\ Running(s, "proposer_slashings")
  /\ LET op == At(block.proposer_slashings, s.i)
         step == process_proposer_slashing(s.bs, op, s.i, verify_signatures)
     IN t = after(s, block, step, <<op.proposer_index>>)

AttesterSlashingStep(s, t) ==
  /\ Running(s, "attester_slashings")
  /\ LET op == At(block.attester_slashings, s.i)
         step == process_attester_slashing(s.bs, op, s.i, verify_signatures)
     IN t = after(s, block, step, get_slashable_indices(s.bs, op).indices)

AttestationStep(s, t) ==
  /\ Running(s, "attestations")
  /\ LET op == At(block.attestations, s.i)
         step == process_attestation(s.bs, block.fork, op, s.i, verify_signatures)
     IN t = after(s, block, step, <<>>)

\* process_deposits, the count check
DepositCountStep(s, t) ==
  /\ Running(s, "deposits")
  /\ LET expected == expected_deposit_len(s.bs)
         found == Len(block.deposits)
         verified == IF found = expected THEN OkResult
                     ELSE DepositCountInvalid(expected, found)
     IN t = try(s, verified,
                IF found = 0 THEN enter(s, block, next_stage("deposits"))
                ELSE [s EXCEPT !.pc = "deposit_proofs",
                               !.proofs = [k \in 1..found |-> "pending"],
                               !.full = FALSE])

\* a proof check that uses the deposit index of the state for every deposit
proof_check_index_of_state(bs, i) == bs.eth1_deposit_index

\* the index the proof of the deposit at list position i is checked against
proof_check_index(bs, i) == bs.eth1_deposit_index + i

\* the Result try_for_each returns once every parallel check has ended: the
\* leftmost error among the checks that ran
join_proofs(proofs) ==
  IF \E k \in 1..Len(proofs) : proofs[k] = "fail"
  THEN into_with_index(Error("DepositInvalid", "BadMerkleProof"),
                       (CHOOSE k \in 1..Len(proofs) :
                          /\ proofs[k] = "fail"
                          /\ \A j \in 1..(k - 1) : proofs[j] # "fail") - 1)
  ELSE OkResult

\* a proof phase that applies each deposit as soon as its proof is checked
InterleavedProofCheckStep(s, t) ==
  /\ Running(s, "deposit_proofs")
  /\ LET step == process_deposit(s.bs, At(block.deposits, s.i), TRUE)
     IN t = after(s, block, step, <<>>)

\* process_deposits, one of the parallel Merkle proof checks: the check of
\* any deposit not yet checked may run next; once one check has failed the
\* iterator is full and the checks not yet started are skipped
ProofCheckStep(s, t) ==
  /\ Running(s, "deposit_proofs")
  /\ \E i \in 0..(Len(block.deposits) - 1) :
       /\ At(s.proofs, i) = "pending"
       /\ LET checked ==
                verify_deposit_merkle_proof(s.bs, At(block.deposits, i),
                                            proof_check_index(s.bs, i))
              outcome == IF s.full THEN "skipped"
                         ELSE IF checked.ok THEN "ok" ELSE "fail"
              proofs == SetAt(s.proofs, i, outcome)
              s1 == [s EXCEPT !.proofs = proofs, !.full = s.full \/ outcome = "fail"]
          IN IF \E k \in 1..Len(proofs) : proofs[k] = "pending" THEN t = s1
             ELSE t = try(s1, join_proofs(proofs),
                          [s1 EXCEPT !.pc = "deposit_apply", !.i = 0])

\* process_deposits, the serial update of the state
DepositApplyStep(s, t) ==
  /\ Running(s, "deposit_apply")
  /\ LET step == process_deposit(s.bs, At(block.deposits, s.i), FALSE)
     IN t = after(s, block, step, <<>>)

ExitStep(s, t) ==
  /\ Running(s, "voluntary_exits")
  /\ LET step == process_exit(s.bs, At(block.voluntary_exits, s.i), s.i,
                              verify_signatures)
     IN t = after(s, block, step, <<>>)

BlsToExecutionChangeStep(s, t) ==
  /\ Running(s, "bls_to_execution_changes")
  /\ LET step == process_bls_to_execution_change(
                   s.bs, At(block.bls_to_execution_changes, s.i), s.i,
                   verify_signatures)
     IN t = after(s, block, step, <<>>)

\* A caller that applies the deposits of a list one at a time with
\* process_deposit(.., verify_merkle_proof = true), as genesis does.
SingleDepositStep(s, t) ==
  /\ Running(s, "process_deposit")
  /\ LET step == process_deposit(s.bs, At(block.deposits, s.i), TRUE)
     IN t = after(s, block, step, <<>>)

(***************************************************************************)
(* The inputs: beacon states and block bodies.                             *)
(***************************************************************************)
\* the key behind the legacy withdrawal credentials of validator i
WithdrawalKey(i) == 50 + i

\* A validator of the registry before the block: active since genesis.
\* Validator 2 already has an execution address; the last validator differs
\* with the registry: "fresh" as the others, "exited" in the past (so not
\* active), "queued" with a slashing and an exit initiated by an earlier block.
InitialValidator(i, registry) ==
  LET last == i = NumValidators - 1
      queue == compute_activation_exit_epoch(StateSlot \div slots_per_epoch)
  IN [pubkey |-> i + 1,
      withdrawal_credentials |->
        IF i = 2 THEN Eth1Credentials(i) ELSE BlsCredentials(WithdrawalKey(i)),
      activation_eligibility_epoch |-> 0,
      activation_epoch |-> 0,
      exit_epoch |->
        IF last /\ registry = "exited" THEN 1
        ELSE IF last /\ registry = "queued" THEN queue
        ELSE far_future_epoch,
      withdrawable_epoch |->
        IF last /\ registry = "exited" THEN 1 + min_validator_withdrawability_delay
        ELSE IF last /\ registry = "queued"
          THEN Max(queue + min_validator_withdrawability_delay,
                   (StateSlot \div slots_per_epoch) - 1 + epochs_per_slashings_vector)
        ELSE far_future_epoch,
      effective_balance |-> max_effective_balance,
      slashed |-> last /\ registry = "queued"]

Registries == {"fresh", "exited", "queued"}

InitialBeaconState(fork, registry, outstanding) ==
  [fork |-> fork,
   slot |-> StateSlot,
   validators |-> [k \in 1..NumValidators |-> InitialValidator(k - 1, registry)],
   balances |-> [k \in 1..NumValidators |-> max_effective_balance],
   previous_epoch_participation |->
     IF is_altair_or_later(fork) THEN [k \in 1..NumValidators |-> {}] ELSE <<>>,
   current_epoch_participation |->
     IF is_altair_or_later(fork) THEN [k \in 1..NumValidators |-> {}] ELSE <<>>,
   inactivity_scores |->
     IF is_altair_or_later(fork) THEN [k \in 1..NumValidators |-> 0] ELSE <<>>,
   previous_epoch_attestations |-> <<>>,
   current_epoch_attestations |-> <<>>,
   eth1_deposit_index |-> InitialDepositIndex,
   eth1_deposit_count |-> InitialDepositIndex + outstanding,
   slashings |-> 0,
   progressive_previous |-> 0,
   progressive_current |-> 0,
   proposer_index |-> 0]

ProposerSlashing(index, slashable_headers, sig_ok) ==
  [proposer_index |-> index, slashable_headers |-> slashable_headers, sig_ok |-> sig_ok]

ProposerSlashingChoices ==
  {ProposerSlashing(0, TRUE, TRUE), ProposerSlashing(1, TRUE, TRUE),
   ProposerSlashing(1, TRUE, FALSE), ProposerSlashing(0, FALSE, TRUE),
   ProposerSlashing(NumValidators - 1, TRUE, TRUE)}

AttesterSlashing(indices_1, indices_2, slashable_data, sig_ok) ==
  [attesting_indices_1 |-> indices_1, attesting_indices_2 |-> indices_2,
   slashable_data |-> slashable_data, sig_ok |-> sig_ok]

AttesterSlashingChoices ==
  {AttesterSlashing({0, 1}, {1, 2}, TRUE, TRUE),
   AttesterSlashing({0, 1}, {0, 1}, TRUE, TRUE),
   AttesterSlashing({1, NumValidators - 1}, {1, NumValidators - 1}, TRUE, FALSE),
   AttesterSlashing({0}, {1}, TRUE, TRUE)}

Attestation(indices, slot, target_matches, head_matches, source_matches, sig_ok) ==
  [attesting_indices |-> indices,
   data |-> [slot |-> slot, target_epoch |-> slot \div slots_per_epoch,
             source_matches |-> source_matches, target_matches |-> target_matches,
             head_matches |-> head_matches],
   sig_ok |-> sig_ok]

AttestationChoices ==
  {Attestation({0}, StateSlot - 1, FALSE, FALSE, TRUE, TRUE),
   Attestation({1}, StateSlot - 1, FALSE, FALSE, TRUE, TRUE),
   Attestation({0, 1}, StateSlot - 1, TRUE, TRUE, TRUE, TRUE),
   Attestation({1, 2}, StateSlot - 2, TRUE, TRUE, TRUE, TRUE),
   Attestation({2}, StateSlot - slots_per_epoch - 1, TRUE, FALSE, TRUE, TRUE),
   Attestation({2}, StateSlot - 1, TRUE, TRUE, TRUE, FALSE),
   Attestation({0}, StateSlot - 1, TRUE, TRUE, FALSE, TRUE)}

\* A deposit before its place in the list is known: proof_shift = 0 is a
\* Merkle proof for the leaf the deposit is due at, 1 a proof for the next leaf.
DepositChoice(pubkey, amount, sig_ok, proof_shift) ==
  [pubkey |-> pubkey, amount |-> amount, sig_ok |-> sig_ok, proof_shift |-> proof_shift]

DepositChoices ==
  {DepositChoice(2, 13, FALSE, 0),
   DepositChoice(NumValidators + 1, 13, TRUE, 0),
   DepositChoice(NumValidators + 1, 40, TRUE, 0),
   DepositChoice(NumValidators + 2, 40, FALSE, 0),
   DepositChoice(2, 13, TRUE, 1),
   DepositChoice(NumValidators + 1, 40, TRUE, 1)}

\* the deposit at list position i (from 0) of a block on a state whose
\* deposit index is InitialDepositIndex
Deposit(choice, i) ==
  [pubkey |-> choice.pubkey,
   amount |-> choice.amount,
   withdrawal_credentials |-> BlsCredentials(choice.pubkey),
   sig_ok |-> choice.sig_ok,
   proof_index |-> InitialDepositIndex + i + choice.proof_shift]

VoluntaryExit(index, epoch, sig_ok) ==
  [validator_index |-> index, epoch |-> epoch, sig_ok |-> sig_ok]

VoluntaryExitChoices ==
  {VoluntaryExit(0, StateSlot \div slots_per_epoch, TRUE),
   VoluntaryExit(1, StateSlot \div slots_per_epoch, TRUE),
   VoluntaryExit(1, StateSlot \div slots_per_epoch, FALSE),
   VoluntaryExit(2, (StateSlot \div slots_per_epoch) + 1, TRUE),
   VoluntaryExit(NumValidators - 1, StateSlot \div slots_per_epoch, TRUE),
   VoluntaryExit(NumValidators, StateSlot \div slots_per_epoch, TRUE)}

BlsToExecutionChange(index, from_bls_pubkey, to_execution_address, sig_ok) ==
  [validator_index |-> index, from_bls_pubkey |-> from_bls_pubkey,
   to_execution_address |-> to_execution_address, sig_ok |-> sig_ok]

BlsToExecutionChangeChoices ==
  {BlsToExecutionChange(0, WithdrawalKey(0), 7, TRUE),
   BlsToExecutionChange(0, WithdrawalKey(0), 8, TRUE),
   BlsToExecutionChange(1, WithdrawalKey(0), 7, TRUE),
   BlsToExecutionChange(1, WithdrawalKey(1), 7, FALSE),
   BlsToExecutionChange(2, WithdrawalKey(2), 7, TRUE)}

\* the lists of at most n elements of S
ListsUpTo(S, n) == UNION {[1..k -> S] : k \in 0..n}

InitialRun(bs, entry_point) ==
  [pc |-> "start", i |-> 0, returned |-> FALSE, result |-> OkResult,
   bs |-> bs, entries |-> <<>>, proofs |-> <<>>, full |-> FALSE,
   applied |-> <<>>, slash_log |-> <<>>, raised |-> <<>>,
   entry_point |-> entry_point]

\* the run at the call of its entry point
Call(run, blk) ==
  IF run.entry_point = "process_operations" THEN enter(run, blk, next_stage("start"))
  ELSE IF blk.deposits = <<>> THEN enter(run, blk, "done")
  ELSE [run EXCEPT !.pc = "process_deposit",
                   !.entries = ("process_deposit" :> run.bs) @@ run.entries]

\* A block body of at most MaxOps operations and a state of the same fork,
\* given to process_operations.
InitOperations ==
  \E fork \in Forks, registry \in Registries, outstanding \in 0..(MaxDeposits + 1),
     vs \in BOOLEAN :
  \E ps \in ListsUpTo(ProposerSlashingChoices, MaxOps) :
  \E as \in ListsUpTo(AttesterSlashingChoices, MaxOps - Len(ps)) :
  \E at \in ListsUpTo(AttestationChoices, MaxOps - Len(ps) - Len(as)) :
  \E dp \in ListsUpTo(DepositChoices, MaxOps - Len(ps) - Len(as) - Len(at)) :
  \E ex \in ListsUpTo(VoluntaryExitChoices,
                      MaxOps - Len(ps) - Len(as) - Len(at) - Len(dp)) :
  \E ch \in ListsUpTo(BlsToExecutionChangeChoices,
                      IF has_bls_to_execution_changes(fork)
                      THEN MaxOps - Len(ps) - Len(as) - Len(at) - Len(dp) - Len(ex)
                      ELSE 0) :
    /\ block = [fork |-> fork, proposer_slashings |-> ps, attester_slashings |-> as,
                attestations |-> at,
                deposits |-> [k \in 1..Len(dp) |-> Deposit(dp[k], k - 1)],
                voluntary_exits |-> ex, bls_to_execution_changes |-> ch]
    /\ verify_signatures = vs
    /\ clone = InitialRun(InitialBeaconState(fork, registry, outstanding),
                          "process_operations")

\* A list of deposits given one at a time to process_deposit with
\* verify_merkle_proof = true.
InitDeposits ==
  \E fork \in Forks, registry \in Registries :
  \E dp \in ListsUpTo(DepositChoices, MaxOps) :
    /\ block = [fork |-> fork, proposer_slashings |-> <<>>, attester_slashings |-> <<>>,
                attestations |-> <<>>,
                deposits |-> [k \in 1..Len(dp) |-> Deposit(dp[k], k - 1)],
                voluntary_exits |-> <<>>, bls_to_execution_changes |-> <<>>]
    /\ verify_signatures = TRUE
    /\ clone = InitialRun(InitialBeaconState(fork, registry, Len(dp)), "process_deposit")

\* A block body with one deposit followed by two voluntary exits, and a state
\* of the same fork that expects the deposit, given to process_operations.
InitExitsAfterDeposit ==
  \E fork \in Forks, registry \in Registries, vs \in BOOLEAN :
  \E dp \in DepositChoices :
  \E ex \in [1..2 -> VoluntaryExitChoices] :
    /\ block = [fork |-> fork, proposer_slashings |-> <<>>, attester_slashings |-> <<>>,
                attestations |-> <<>>,
                deposits |-> <<Deposit(dp, 0)>>,
                voluntary_exits |-> ex, bls_to_execution_changes |-> <<>>]
    /\ verify_signatures = vs
    /\ clone = InitialRun(InitialBeaconState(fork, registry, 1), "process_operations")

Init ==
  /\ InitOperations \/ InitDeposits \/ InitExitsAfterDeposit
  /\ state = Call(clone, block)

(***************************************************************************)
(* The actions: the run `state` takes one step; the clone is not run.      *)
(***************************************************************************)
Inputs == <<block, verify_signatures>>

ProcessProposerSlashing ==
  ProposerSlashingStep(state, state') /\ UNCHANGED <<Inputs, clone>>

ProcessAttesterSlashing ==
  AttesterSlashingStep(state, state') /\ UNCHANGED <<Inputs, clone>>

ProcessAttestation ==
  AttestationStep(state, state') /\ UNCHANGED <<Inputs, clone>>

CheckDepositCount ==
  DepositCountStep(state, state') /\ UNCHANGED <<Inputs, clone>>

VerifyDepositProof ==
  ProofCheckStep(state, state') /\ UNCHANGED <<Inputs, clone>>

ApplyDeposit ==
  DepositApplyStep(state, state') /\ UNCHANGED <<Inputs, clone>>

ProcessExit ==
  ExitStep(state, state') /\ UNCHANGED <<Inputs, clone>>

ProcessBlsToExecutionChange ==
  BlsToExecutionChangeStep(state, state') /\ UNCHANGED <<Inputs, clone>>

ProcessSingleDeposit ==
  SingleDepositStep(state, state') /\ UNCHANGED <<Inputs, clone>>

Next ==
  \/ ProcessProposerSlashing
  \/ ProcessAttesterSlashing
  \/ ProcessAttestation
  \/ CheckDepositCount
  \/ VerifyDepositProof
  \/ ApplyDeposit
  \/ ProcessExit
  \/ ProcessBlsToExecutionChange
  \/ ProcessSingleDeposit

Spec == Init /\ [][Next]_vars

(***************************************************************************)
(* Two runs: once the run `state` has returned, the clone, an independent  *)
(* copy of the same state, is run on the same block.                       *)
(***************************************************************************)
AnyStep(s, t) ==
  \/ ProposerSlashingStep(s, t)
  \/ AttesterSlashingStep(s, t)
  \/ AttestationStep(s, t)
  \/ DepositCountStep(s, t)
  \/ ProofCheckStep(s, t)
  \/ DepositApplyStep(s, t)
  \/ ExitStep(s, t)
  \/ BlsToExecutionChangeStep(s, t)
  \/ SingleDepositStep(s, t)

FirstRun == Next

SecondRun ==
  /\ state.returned
  /\ clone.pc = "start"
  /\ clone' = Call(clone, block)
  /\ UNCHANGED <<Inputs, state>>

SecondRunStep ==
  /\ state.returned
  /\ AnyStep(clone, clone')
  /\ UNCHANGED <<Inputs, state>>

NextTwoRuns == FirstRun \/ SecondRun \/ SecondRunStep

SpecTwoRuns == Init /\ [][NextTwoRuns]_vars

(***************************************************************************)
(* Properties.                                                             *)
(***************************************************************************)
IsPrefix(a, b) == Len(a) <= Len(b) /\ SubSeq(b, 1, Len(a)) = a

StageLog(stage, n) == [k \in 1..n |-> <<stage, k - 1>>]

\* every record of the block, in the order of the protocol
ProtocolOrder(blk) ==
  StageLog("proposer_slashings", Len(blk.proposer_slashings))
  \o StageLog("attester_slashings", Len(blk.attester_slashings))
  \o StageLog("attestations", Len(blk.attestations))
  \o StageLog("deposit_apply", Len(blk.deposits))
  \o StageLog("voluntary_exits", Len(blk.voluntary_exits))
  \o StageLog("bls_to_execution_changes", Len(blk.bls_to_execution_changes))

StageRank(stage) ==
  CHOOSE k \in 1..Len(ListStages) : ListStages[k] = stage_key(stage)

OperationsRun == state.entry_point = "process_operations"

Failed == state.returned /\ ~state.result.ok

Succeeded == state.returned /\ state.result.ok

\* validator i has an exit epoch it did not have before the block
NewlyExited(i) ==
  At(state.bs.validators, i).exit_epoch # far_future_epoch
  /\ (i < NumValidators
        => At(clone.bs.validators, i).exit_epoch = far_future_epoch)

NewlyExitedSet == {i \in ValidatorIndices(state.bs) : NewlyExited(i)}

InLog(log, i) == \E k \in 1..Len(log) : log[k] = i

\* C1: process_operations applies the records in the order proposer
\* slashings, attester slashings, attestations, deposits, voluntary exits,
\* address changes; the first error raised is returned at once, and the
\* stages after the failing one are never called, so they mutate nothing: when
\* a slashing or an attestation is invalid the deposit index is not advanced,
\* no validator is added and no exit is initiated other than by a slashing.
C1_FixedOrderShortCircuit ==
  OperationsRun =>
    /\ IsPrefix(state.applied, ProtocolOrder(block))
    /\ Succeeded => state.applied = ProtocolOrder(block)
    /\ state.raised # <<>> => Failed /\ state.raised = <<state.result>>
    /\ Failed =>
         /\ state.raised = <<state.result>>
         /\ \A stage \in DOMAIN state.entries :
              StageRank(stage) <= StageRank(state.pc)
         /\ state.result.kind \in {"ProposerSlashingInvalid", "AttesterSlashingInvalid",
                                   "AttestationInvalid"}
              => /\ state.bs.eth1_deposit_index = clone.bs.eth1_deposit_index
                 /\ Len(state.bs.validators) = Len(clone.bs.validators)
                 /\ \A i \in NewlyExitedSet : InLog(state.slash_log, i)

\* an invalid attestation ended the run of a block that carries the deposits
\* the state expects
C1_Witness ==
  /\ OperationsRun /\ Failed
  /\ state.result.kind = "AttestationInvalid"
  /\ block.deposits # <<>>
  /\ Len(block.deposits) = expected_deposit_len(state.bs)

\* C2: two runs of process_operations on independent copies of one state with
\* the same block, verification mode and configuration end alike: both Ok with
\* equal states, or both with the same error.
C2_Deterministic ==
  (OperationsRun /\ state.returned /\ clone.returned)
    => /\ state.result = clone.result
       /\ state.result.ok => state.bs = clone.bs

\* the state before the block
Before == clone.bs

NumApplied(stage) ==
  Cardinality({k \in 1..Len(state.applied) : state.applied[k][1] = stage})

\* the deposits process_deposit has returned Ok for
AppliedDeposits ==
  SubSeq(block.deposits, 1, NumApplied("deposit_apply") + NumApplied("process_deposit"))

KeysOf(bs) == {At(bs.validators, i).pubkey : i \in ValidatorIndices(bs)}

\* the number of validators a list of deposits creates: one for each public
\* key that is not yet registered and comes with a valid signature
RECURSIVE Created(_, _)
Created(deposits, known) ==
  IF deposits = <<>> THEN 0
  ELSE IF Head(deposits).pubkey \in known THEN Created(Tail(deposits), known)
  ELSE IF Head(deposits).sig_ok
    THEN 1 + Created(Tail(deposits), known \cup {Head(deposits).pubkey})
  ELSE Created(Tail(deposits), known)

\* C3: after every process_deposit call that returns Ok, the validators and
\* balances and, from Altair on, the two participation lists and the
\* inactivity scores have the same length: each has grown by the number N of
\* validators the deposits applied so far have created.
C3_IndexAligned ==
  LET n == Len(Before.validators) + Created(AppliedDeposits, KeysOf(Before))
  IN /\ Len(state.bs.validators) = n
     /\ Len(state.bs.balances) = n
     /\ is_altair_or_later(state.bs.fork) =>
          /\ Len(state.bs.previous_epoch_participation) = n
          /\ Len(state.bs.current_epoch_participation) = n
          /\ Len(state.bs.inactivity_scores) = n
     /\ ~is_altair_or_later(state.bs.fork) =>
          /\ state.bs.previous_epoch_participation = <<>>
          /\ state.bs.current_epoch_participation = <<>>
          /\ state.bs.inactivity_scores = <<>>

\* two deposits were applied to an Altair or later state, and created a validator
C3_Witness ==
  /\ OperationsRun
  /\ is_altair_or_later(state.bs.fork)
  /\ Len(AppliedDeposits) = 2
  /\ Created(AppliedDeposits, KeysOf(Before)) >= 1
  /\ Len(state.bs.inactivity_scores) > Len(Before.inactivity_scores)

\* the call of this stage's processor has returned
StageReturned(stage) ==
  \/ Failed /\ stage_key(state.pc) = stage
  \/ \E later \in DOMAIN state.entries : StageRank(later) > StageRank(stage)
  \/ Succeeded

\* how often slash_validator was applied to validator v
SlashCount(v) ==
  Cardinality({k \in 1..Len(state.slash_log) : state.slash_log[k] = v})

\* the list indices of the proposer slashings that name the validator of an
\* earlier record of the list
RepeatedProposerSlashings ==
  {k \in 0..(Len(block.proposer_slashings) - 1) :
     \E j \in 0..(k - 1) :
       At(block.proposer_slashings, j).proposer_index
         = At(block.proposer_slashings, k).proposer_index}

LeastOf(S) == CHOOSE m \in S : \A x \in S : m <= x

\* C4 as claimed: when two proposer slashings of the list name the same
\* validator, process_proposer_slashings fails with the list index of the
\* second, and the validator has been slashed exactly once.
C4_SecondRecordFails ==
  (OperationsRun /\ RepeatedProposerSlashings # {}
   /\ StageReturned("proposer_slashings"))
    => LET k == LeastOf(RepeatedProposerSlashings)
           v == At(block.proposer_slashings, k).proposer_index
       IN /\ Failed /\ state.pc = "proposer_slashings"
          /\ state.result.index = k
          /\ SlashCount(v) = 1

\* C4, amended: when two proposer slashings of the list name the same
\* validator, process_proposer_slashings fails, at the second record or before
\* it, with the list index of the first record that is invalid when its turn
\* comes; when every record before the second was applied it fails with the
\* index of the second, and the validator has been slashed exactly once; the
\* validator is never slashed twice.
C4_RepeatedProposerSlashingRejected ==
  (OperationsRun /\ RepeatedProposerSlashings # {})
    => LET k == LeastOf(RepeatedProposerSlashings)
           v == At(block.proposer_slashings, k).proposer_index
       IN /\ SlashCount(v) <= 1
          /\ StageReturned("proposer_slashings") =>
               /\ Failed /\ state.pc = "proposer_slashings"
               /\ state.result.kind = "ProposerSlashingInvalid"
               /\ state.result.index = NumApplied("proposer_slashings")
               /\ state.result.index <= k
               /\ state.result.index = k =>
                    /\ SlashCount(v) = 1
                    /\ At(state.bs.validators, v).slashed

\* the second of two slashings of one validator was rejected after the first
\* had slashed the validator
C4_Witness ==
  /\ OperationsRun /\ Failed
  /\ state.pc = "proposer_slashings"
  /\ RepeatedProposerSlashings = {1}
  /\ state.result.index = 1
  /\ SlashCount(At(block.proposer_slashings, 1).proposer_index) = 1
  /\ ~At(Before.validators, At(block.proposer_slashings, 1).proposer_index).slashed

\* process_deposit is about to be called on the deposit at list position
\* state.i
AtDeposit ==
  ~state.returned /\ state.pc \in {"deposit_apply", "process_deposit"}

\* a deposit for a public key no validator of bs has, with an invalid
\* registration signature
IsSkipped(bs, deposit) ==
  deposit.pubkey \notin KeysOf(bs) /\ ~deposit.sig_ok

\* the collections with one entry per validator
PerValidator(bs) ==
  <<bs.validators, bs.balances, bs.previous_epoch_participation,
    bs.current_epoch_participation, bs.inactivity_scores>>

\* C5: a call of process_deposit on a deposit whose public key matches no
\* validator and whose signature is invalid (and whose Merkle proof, where the
\* caller asks for the check, is valid) returns Ok, adds exactly 1 to the
\* deposit index and leaves validators, balances, participation and inactivity
\* scores as they were; the caller goes on with the next deposit of the list.
C5_SilentSkip ==
  [][(/\ AtDeposit
      /\ IsSkipped(state.bs, At(block.deposits, state.i))
      /\ state.pc = "process_deposit"
           => At(block.deposits, state.i).proof_index = state.bs.eth1_deposit_index)
       => /\ state'.result.ok
          /\ state'.raised = state.raised
          /\ state'.bs.eth1_deposit_index = state.bs.eth1_deposit_index + 1
          /\ PerValidator(state'.bs) = PerValidator(state.bs)
          /\ state'.applied = Append(state.applied, <<state.pc, state.i>>)
          /\ IF state.i + 1 < Len(block.deposits)
             THEN ~state'.returned /\ state'.pc = state.pc
                  /\ state'.i = state.i + 1
             ELSE state'.pc \notin {"deposit_apply", "process_deposit"}
     ]_vars

\* a block whose first deposit was skipped for its signature and whose second
\* created a validator
C5_Witness ==
  /\ OperationsRun /\ Succeeded
  /\ Len(block.deposits) = 2
  /\ IsSkipped(Before, At(block.deposits, 0))
  /\ state.bs.eth1_deposit_index = Before.eth1_deposit_index + 2
  /\ Len(state.bs.validators) = Len(Before.validators) + 1
  /\ At(state.bs.validators, Len(Before.validators)).pubkey
       = At(block.deposits, 1).pubkey

\* the flag-based process_attestations was called and has returned Ok
AttestationsSucceeded ==
  /\ OperationsRun
  /\ is_altair_or_later(block.fork)
  /\ "deposits" \in DOMAIN state.entries

\* the beacon state at the call of process_attestations and at its return
AtAttestations == state.entries["attestations"]
AfterAttestations == state.entries["deposits"]

\* what the proposer's balance grew by during process_attestations
ProposerIncrease ==
  At(AfterAttestations.balances, get_proposer_index(AtAttestations))
    - At(AtAttestations.balances, get_proposer_index(AtAttestations))

ParticipationOf(bs, epoch) ==
  IF epoch = "current" THEN bs.current_epoch_participation
  ELSE bs.previous_epoch_participation

\* the base reward of a validator during process_attestations
StageBaseReward(index) ==
  get_base_reward(AtAttestations, index,
                  base_reward_per_increment(get_total_active_balance(AtAttestations)))

FlagWeight(flag_index) == PARTICIPATION_FLAG_WEIGHTS[flag_index + 1]

\* D
RewardDenominator ==
  ((WEIGHT_DENOMINATOR - PROPOSER_WEIGHT) * WEIGHT_DENOMINATOR) \div PROPOSER_WEIGHT

\* the (epoch, validator, flag) triples the attestations of the block newly set
NewlySetFlags ==
  {p \in {"previous", "current"} \X ValidatorIndices(AtAttestations)
           \X (0..(Len(PARTICIPATION_FLAG_WEIGHTS) - 1)) :
     /\ p[3] \in At(ParticipationOf(AfterAttestations, p[1]), p[2])
     /\ p[3] \notin At(ParticipationOf(AtAttestations, p[1]), p[2])}

\* N, the numerator of the whole block
BlockNumerator ==
  SumOver([p \in NewlySetFlags |-> StageBaseReward(p[2]) * FlagWeight(p[3])],
          NewlySetFlags)

\* The reference: the rewards of the attestations from list position k on,
\* each the floor of its own numerator over D, given the participation so far.
RECURSIVE ReferenceRewards(_, _, _)
ReferenceRewards(attestations, k, participation) ==
  IF k > Len(attestations) THEN 0
  ELSE
    LET data == attestations[k].data
        epoch == IF data.target_epoch = current_epoch(AtAttestations)
                 THEN "current" ELSE "previous"
        flags == get_attestation_participation_flag_indices(
                   AtAttestations, data, AtAttestations.slot - data.slot)
        new == {q \in attestations[k].attesting_indices \X flags :
                  q[2] \notin At(participation[epoch], q[1])}
        numerator == SumOver([q \in new |-> StageBaseReward(q[1]) * FlagWeight(q[2])],
                             new)
        set == [j \in DOMAIN participation[epoch] |->
                  IF j - 1 \in attestations[k].attesting_indices
                  THEN participation[epoch][j] \cup flags
                  ELSE participation[epoch][j]]
    IN (numerator \div RewardDenominator)
         + ReferenceRewards(attestations, k + 1,
                            [participation EXCEPT ![epoch] = set])

\* C6 as claimed: after the flag-based process_attestations succeeded the
\* proposer's balance has grown by floor(N / D), N the numerator of the whole
\* block, the division made once for the block.
C6_BlockWideDivision ==
  AttestationsSucceeded => ProposerIncrease = BlockNumerator \div RewardDenominator

\* C6, amended: after the flag-based process_attestations succeeded the
\* proposer's balance has grown by the sum over the attestations of the block
\* of floor(N_a / D), N_a the numerator of the flags attestation a newly set;
\* the division is made once per attestation, so the growth is at most
\* floor(N / D) for the block's numerator N and can be less.
C6_PerAttestationDivision ==
  AttestationsSucceeded =>
    /\ ProposerIncrease
         = ReferenceRewards(block.attestations, 1,
                            [previous |-> AtAttestations.previous_epoch_participation,
                             current |-> AtAttestations.current_epoch_participation])
    /\ ProposerIncrease <= BlockNumerator \div RewardDenominator

\* two attestations were rewarded and the rounding of each lost a part of
\* the block's reward
C6_Witness ==
  /\ AttestationsSucceeded
  /\ Len(block.attestations) = 2
  /\ ProposerIncrease > 0
  /\ ProposerIncrease < BlockNumerator \div RewardDenominator

\* the list indices of the voluntary exits that name the validator of an
\* earlier exit of the list
RepeatedExits ==
  {k \in 0..(Len(block.voluntary_exits) - 1) :
     \E j \in 0..(k - 1) :
       At(block.voluntary_exits, j).validator_index
         = At(block.voluntary_exits, k).validator_index}

\* C7 as claimed: when two voluntary exits of the list name the same
\* validator, process_exits fails with the list index of the later one.
C7_LaterExitFails ==
  (OperationsRun /\ RepeatedExits # {} /\ StageReturned("voluntary_exits"))
    => /\ Failed /\ state.pc = "voluntary_exits"
       /\ state.result.index = LeastOf(RepeatedExits)

\* C7, amended: when two voluntary exits of the list name the same validator,
\* process_exits fails, at the later exit or before it, with the list index of
\* the first exit that is invalid against the state as the earlier exits left
\* it; when every exit before the later one was applied, the later one is
\* rejected with its own list index and leaves the state, and so the exit and
\* withdrawable epochs the first exit set, as it was.
C7_RepeatedExitRejected ==
  /\ [](( OperationsRun /\ RepeatedExits # {} /\ StageReturned("voluntary_exits"))
          => /\ Failed /\ state.pc = "voluntary_exits"
             /\ state.result.kind = "ExitInvalid"
             /\ state.result.index = NumApplied("voluntary_exits")
             /\ state.result.index <= LeastOf(RepeatedExits))
  /\ [][(Running(state, "voluntary_exits") /\ state.i \in RepeatedExits)
          => LET v == At(block.voluntary_exits, state.i).validator_index
             IN /\ At(state.bs.validators, v).exit_epoch # far_future_epoch
                /\ At(state.bs.validators, v).withdrawable_epoch # far_future_epoch
                /\ state'.returned /\ ~state'.result.ok
                /\ state'.result.index = state.i
                /\ state'.bs = state.bs
       ]_vars

\* the second of two exits of one validator was rejected after the first had
\* set the validator's exit epoch
C7_Witness ==
  /\ OperationsRun /\ Failed
  /\ state.pc = "voluntary_exits"
  /\ RepeatedExits = {1}
  /\ state.result.index = 1
  /\ LET v == At(block.voluntary_exits, 1).validator_index
     IN /\ At(Before.validators, v).exit_epoch = far_future_epoch
        /\ At(state.bs.validators, v).exit_epoch # far_future_epoch

\* process_exits was called
ExitsCalled == OperationsRun /\ "voluntary_exits" \in DOMAIN state.entries

\* the beacon state at the call of process_exits
AtExits == state.entries["voluntary_exits"]

\* the validators process_exits has given an exit epoch so far
ExitedByBlock ==
  {i \in ValidatorIndices(AtExits) :
     /\ At(AtExits.validators, i).exit_epoch = far_future_epoch
     /\ At(state.bs.validators, i).exit_epoch # far_future_epoch}

\* the validator of the exit at list position k
Exiting(k) == At(block.voluntary_exits, k).validator_index

\* C8: with a churn limit of 1, of two voluntary exits of a block that were
\* applied, for different validators, the later one has the strictly greater
\* exit epoch and the strictly greater withdrawable epoch; and whatever the
\* churn limit, no more validators than the churn limit share an exit epoch
\* that process_exits assigned.
C8_ExitChurnOrdering ==
  ExitsCalled =>
    /\ get_churn_limit(AtExits) = 1 =>
         \A k \in 0..(NumApplied("voluntary_exits") - 1) : \A j \in 0..(k - 1) :
           Exiting(j) # Exiting(k) =>
             /\ At(state.bs.validators, Exiting(k)).exit_epoch
                  > At(state.bs.validators, Exiting(j)).exit_epoch
             /\ At(state.bs.validators, Exiting(k)).withdrawable_epoch
                  > At(state.bs.validators, Exiting(j)).withdrawable_epoch
    /\ \A i \in ExitedByBlock :
         Cardinality({o \in ExitedByBlock :
                        At(state.bs.validators, o).exit_epoch
                          = At(state.bs.validators, i).exit_epoch})
           <= get_churn_limit(AtExits)

\* two exits were applied under a churn limit of 1
C8_Witness ==
  /\ ExitsCalled /\ Succeeded
  /\ get_churn_limit(AtExits) = 1
  /\ NumApplied("voluntary_exits") = 2
  /\ Exiting(0) # Exiting(1)
  /\ Cardinality(ExitedByBlock) = 2

\* the pending attestation records of a state
PendingAttestations(bs) ==
  <<bs.previous_epoch_attestations, bs.current_epoch_attestations>>

\* the participation flags of a state
Participation(bs) ==
  <<bs.previous_epoch_participation, bs.current_epoch_participation>>

\* the (validator, flag) pairs of an epoch's participation set between two
\* states
SetBetween(pre, post, epoch) ==
  {q \in ValidatorIndices(pre) \X (0..(Len(PARTICIPATION_FLAG_WEIGHTS) - 1)) :
     /\ q[2] \in At(ParticipationOf(post, epoch), q[1])
     /\ q[2] \notin At(ParticipationOf(pre, epoch), q[1])}

\* the legacy effect of one attestation: a pending attestation record is
\* appended for the epoch of its target, and nothing else changes
LegacyEffect(pre, post, attestation) ==
  LET in_current == attestation.data.target_epoch = current_epoch(pre)
      grown == IF in_current THEN post.current_epoch_attestations
               ELSE post.previous_epoch_attestations
      kept == IF in_current THEN pre.current_epoch_attestations
              ELSE pre.previous_epoch_attestations
  IN /\ Len(grown) = Len(kept) + 1
     /\ SubSeq(grown, 1, Len(kept)) = kept
     /\ grown[Len(grown)].data = attestation.data
     /\ grown[Len(grown)].aggregation_bits = attestation.attesting_indices
     /\ Len(post.previous_epoch_attestations) + Len(post.current_epoch_attestations)
          = Len(pre.previous_epoch_attestations)
              + Len(pre.current_epoch_attestations) + 1
     /\ Participation(post) = Participation(pre)
     /\ post.balances = pre.balances

\* the flag-based effect of one attestation: the flags of the attestation are
\* set for its attesting validators in the epoch of its target, the proposer
\* is credited the floor of the numerator of the newly set flags over D, and
\* no pending attestation record is appended
FlagEffect(pre, post, attestation) ==
  LET data == attestation.data
      epoch == IF data.target_epoch = current_epoch(pre)
               THEN "current" ELSE "previous"
      other == IF epoch = "current" THEN "previous" ELSE "current"
      flags == get_attestation_participation_flag_indices(
                 pre, data, pre.slot - data.slot)
      new == SetBetween(pre, post, epoch)
      per_increment == base_reward_per_increment(get_total_active_balance(pre))
      numerator ==
        SumOver([q \in new |-> get_base_reward(pre, q[1], per_increment)
                                 * FlagWeight(q[2])], new)
      proposer == get_proposer_index(pre)
  IN /\ PendingAttestations(post) = PendingAttestations(pre)
     /\ ParticipationOf(post, other) = ParticipationOf(pre, other)
     /\ \A i \in ValidatorIndices(pre) :
          At(ParticipationOf(post, epoch), i)
            = IF i \in attestation.attesting_indices
              THEN At(ParticipationOf(pre, epoch), i) \cup flags
              ELSE At(ParticipationOf(pre, epoch), i)
     /\ post.balances
          = SetAt(pre.balances, proposer,
                  At(pre.balances, proposer) + (numerator \div RewardDenominator))

\* C9: process_attestations runs the variant of the block body's fork tag: an
\* attestation of a Base body has the legacy effect alone and an attestation
\* of an Altair, Merge, Capella or Deneb body the flag-based effect alone; an
\* attestation that is not applied is rejected as an invalid attestation with
\* its list index, never for the variant of the state.
C9_ForkDispatch ==
  [][Running(state, "attestations")
       => LET attestation == At(block.attestations, state.i)
          IN IF state'.applied = Append(state.applied, <<"attestations", state.i>>)
             THEN IF block.fork = "Base"
                  THEN LegacyEffect(state.bs, state'.bs, attestation)
                  ELSE /\ block.fork \in {"Altair", "Merge", "Capella", "Deneb"}
                       /\ FlagEffect(state.bs, state'.bs, attestation)
             ELSE /\ state'.returned
                  /\ state'.result.kind = "AttestationInvalid"
                  /\ state'.result.index = state.i
                  /\ state'.bs = state.bs
    ]_vars

\* an attestation of an Altair body set flags and paid the proposer, where
\* the legacy variant gives the same attestation a pending record on a Base
\* state
C9_Witness ==
  /\ AttestationsSucceeded
  /\ block.fork = "Altair"
  /\ Len(block.attestations) = 1
  /\ ProposerIncrease > 0
  /\ NewlySetFlags # {}
  /\ PendingAttestations(state.bs) = <<<<>>, <<>>>>
  /\ LET legacy == base_process_attestation(
                     InitialBeaconState("Base", "fresh", 0),
                     At(block.attestations, 0), 0, verify_signatures)
     IN /\ legacy.result.ok
        /\ Len(legacy.bs.current_epoch_attestations) = 1
        /\ legacy.bs.balances = InitialBeaconState("Base", "fresh", 0).balances

\* the list position of the operation the run failed on: the position the
\* serial loops had reached, or, for the parallel proof checks, the position
\* of a deposit whose check failed
IsFailedPosition(index) ==
  IF state.pc = "deposit_proofs"
  THEN InBounds(state.proofs, index) /\ At(state.proofs, index) = "fail"
  ELSE index = state.i

\* C10: every failure returned for an invalid operation carries the
\* zero-based position of that operation in its own list, whatever the kind
\* of the operation and, for a deposit, whether its proof check or
\* process_deposit raised the failure.
C10_ErrorIndexIsListPosition ==
  (Failed /\ state.result.kind # "DepositCountInvalid")
    => IsFailedPosition(state.result.index)


\* the number of deposits the state expects of a block
ExpectedCount(bs) ==
  IF bs.eth1_deposit_count - bs.eth1_deposit_index < MaxDeposits
  THEN bs.eth1_deposit_count - bs.eth1_deposit_index
  ELSE MaxDeposits

\* C11: process_deposits goes on to the proof checks only if the block holds
\* exactly min(deposit cap, outstanding deposits of the state) deposits; for
\* every other count it returns DepositCountInvalid with the expected and the
\* found count, and leaves the state as it was.
C11_DepositCount ==
  [][Running(state, "deposits")
       => IF Len(block.deposits) = ExpectedCount(state.bs)
          THEN /\ state'.result.ok
               /\ state'.raised = state.raised
               /\ IF block.deposits = <<>>
                  THEN state'.pc \notin {"deposits", "deposit_proofs", "deposit_apply"}
                  ELSE state'.pc = "deposit_proofs" /\ ~state'.returned
          ELSE /\ state'.returned
               /\ state'.result.kind = "DepositCountInvalid"
               /\ state'.result.expected = ExpectedCount(state.bs)
               /\ state'.result.found = Len(block.deposits)
               /\ state'.bs = state.bs
    ]_vars

\* a block with a deposit was refused by a state with no outstanding deposit
C11_Witness ==
  /\ OperationsRun /\ Failed
  /\ state.result.kind = "DepositCountInvalid"
  /\ state.result.expected = 0
  /\ state.result.found > 0
  /\ state.bs.eth1_deposit_count = state.bs.eth1_deposit_index


\* the list positions of the deposits whose Merkle proof is invalid for the
\* state process_deposits was called on
InvalidProofs ==
  {i \in 0..(Len(block.deposits) - 1) :
     At(block.deposits, i).proof_index # state.entries["deposits"].eth1_deposit_index + i}

\* process_deposits has returned the error of a proof check
FailedOnProof ==
  OperationsRun /\ Failed /\ state.pc = "deposit_proofs"

\* C12: when deposits of a block have invalid Merkle proofs, the error
\* process_deposits returns carries the smallest list index of a deposit with
\* an invalid proof, in whatever order the parallel checks ran.
C12_EarliestProofError ==
  FailedOnProof =>
    /\ InvalidProofs # {}
    /\ state.result.index = LeastOf(InvalidProofs)


\* the list indices of the address changes that name the validator of an
\* earlier record of the list
RepeatedChanges ==
  {k \in 0..(Len(block.bls_to_execution_changes) - 1) :
     \E j \in 0..(k - 1) :
       At(block.bls_to_execution_changes, j).validator_index
         = At(block.bls_to_execution_changes, k).validator_index}

\* C13 as claimed: when two address changes of the list name the same
\* validator, the first rewrites the validator's withdrawal credentials and
\* process_bls_to_execution_changes fails with the list index of the second.
C13_SecondChangeFails ==
  (OperationsRun /\ RepeatedChanges # {}
   /\ StageReturned("bls_to_execution_changes"))
    => LET k == LeastOf(RepeatedChanges)
           v == At(block.bls_to_execution_changes, k).validator_index
       IN /\ Failed /\ state.pc = "bls_to_execution_changes"
          /\ state.result.index = k
          /\ At(state.bs.validators, v).withdrawal_credentials.prefix = "eth1"

\* C13, amended: when two address changes of the list name the same
\* validator, process_bls_to_execution_changes fails, at the second record or
\* before it, with the list index of the first record that is invalid against
\* the state as the earlier records left it; when every record before the
\* second was applied, the validator has the credentials the first wrote, and
\* the second is rejected with its own list index and leaves the state as it
\* was.
C13_RepeatedChangeRejected ==
  /\ []((OperationsRun /\ RepeatedChanges # {}
         /\ StageReturned("bls_to_execution_changes"))
          => /\ Failed /\ state.pc = "bls_to_execution_changes"
             /\ state.result.kind = "BlsExecutionChangeInvalid"
             /\ state.result.index = NumApplied("bls_to_execution_changes")
             /\ state.result.index <= LeastOf(RepeatedChanges))
  /\ [][(Running(state, "bls_to_execution_changes") /\ state.i \in RepeatedChanges)
          => LET k == state.i
                 v == At(block.bls_to_execution_changes, k).validator_index
                 j == LeastOf({x \in 0..(k - 1) :
                        At(block.bls_to_execution_changes, x).validator_index = v})
             IN /\ At(state.bs.validators, v).withdrawal_credentials
                     = [prefix |-> "eth1",
                        body |-> At(block.bls_to_execution_changes, j).to_execution_address]
                /\ state'.returned /\ ~state'.result.ok
                /\ state'.result.index = k
                /\ state'.bs = state.bs
       ]_vars

\* the second of two address changes of one validator was rejected after the
\* first had rewritten the validator's credentials
C13_Witness ==
  /\ OperationsRun /\ Failed
  /\ state.pc = "bls_to_execution_changes"
  /\ RepeatedChanges = {1}
  /\ state.result.index = 1
  /\ LET v == At(block.bls_to_execution_changes, 1).validator_index
     IN /\ At(Before.validators, v).withdrawal_credentials.prefix = "bls"
        /\ At(state.bs.validators, v).withdrawal_credentials
             = [prefix |-> "eth1",
                body |-> At(block.bls_to_execution_changes, 0).to_execution_address]
        /\ At(block.bls_to_execution_changes, 1).to_execution_address
             # At(block.bls_to_execution_changes, 0).to_execution_address


\* every entry of the participation list `old` is still there in `new`, with
\* at least the flags it had
FlagsKept(old, new) ==
  /\ Len(new) >= Len(old)
  /\ \A k \in 1..Len(old) : old[k] \subseteq new[k]

\* C14: no step of process_operations clears a participation flag: for every
\* validator of the state and both epoch buckets the flags after the step
\* include the flags before it.
C14_FlagsMonotonic ==
  [][/\ FlagsKept(state.bs.previous_epoch_participation,
                  state'.bs.previous_epoch_participation)
     /\ FlagsKept(state.bs.current_epoch_participation,
                  state'.bs.current_epoch_participation)
    ]_vars

\* a second attestation added flags to a validator that had the source flag
\* of a first attestation
C14_Witness ==
  /\ AttestationsSucceeded
  /\ Len(block.attestations) = 2
  /\ \E i \in At(block.attestations, 0).attesting_indices :
       /\ ~At(block.attestations, 0).data.target_matches
       /\ At(block.attestations, 1).data.target_matches
       /\ i \in At(block.attestations, 1).attesting_indices
       /\ At(AfterAttestations.current_epoch_participation, i)
            = {TIMELY_SOURCE_FLAG_INDEX, TIMELY_TARGET_FLAG_INDEX,
               TIMELY_HEAD_FLAG_INDEX}


\* the flags of an attestation are all set already, for all its attesting
\* validators, in the bucket of its target epoch
AllFlagsSet(bs, attestation) ==
  LET data == attestation.data
      epoch == IF data.target_epoch = current_epoch(bs) THEN "current" ELSE "previous"
      flags == get_attestation_participation_flag_indices(bs, data, bs.slot - data.slot)
  IN \A i \in attestation.attesting_indices :
       flags \subseteq At(ParticipationOf(bs, epoch), i)

\* C15: a flag pays the proposer at most once in a block and only when it
\* was not set before: what the proposer gained from the attestations of the
\* block, times D, is at most the sum of base_reward * weight over the
\* (validator, bucket, flag) triples the block newly set, each taken once; and
\* an attestation applied when its flags are all set already for all its
\* attesting validators changes no balance and no flag.
C15_NoDoubleReward ==
  /\ [](AttestationsSucceeded
          => ProposerIncrease * RewardDenominator <= BlockNumerator)
  /\ [][(/\ Running(state, "attestations")
         /\ is_altair_or_later(block.fork)
         /\ state'.applied = Append(state.applied, <<"attestations", state.i>>)
         /\ AllFlagsSet(state.bs, At(block.attestations, state.i)))
          => /\ state'.bs.balances = state.bs.balances
             /\ Participation(state'.bs) = Participation(state.bs)
       ]_vars

\* the same attestation was applied twice and the proposer was paid for it
C15_Witness ==
  /\ AttestationsSucceeded
  /\ Len(block.attestations) = 2
  /\ At(block.attestations, 0) = At(block.attestations, 1)
  /\ ProposerIncrease > 0
  /\ ProposerIncrease = BlockNumerator \div RewardDenominator


\* the legacy process_attestations was called and has returned Ok
LegacyAttestationsSucceeded ==
  /\ OperationsRun
  /\ block.fork = "Base"
  /\ "deposits" \in DOMAIN state.entries

\* the pending record the legacy variant owes an attestation
PendingRecord(attestation) ==
  [aggregation_bits |-> attestation.attesting_indices,
   data |-> attestation.data,
   inclusion_delay |-> AtAttestations.slot - attestation.data.slot,
   proposer_index |-> AtAttestations.proposer_index]

TargetsCurrentEpoch(attestation) ==
  attestation.data.target_epoch = AtAttestations.slot \div slots_per_epoch

TargetsOtherEpoch(attestation) == ~TargetsCurrentEpoch(attestation)

\* the pending records of the attestations of a list, in the order of the list
RECURSIVE PendingRecords(_)
PendingRecords(attestations) ==
  IF attestations = <<>> THEN <<>>
  ELSE <<PendingRecord(Head(attestations))>> \o PendingRecords(Tail(attestations))

\* C16: after the legacy process_attestations succeeded on n attestations, n
\* pending records have been appended in input order, the record of an
\* attestation to the current-epoch list if its target epoch is the state's
\* current epoch and to the previous-epoch list if not, each with inclusion
\* delay = state slot - attestation slot and the block's proposer index; no
\* balance has changed.
C16_LegacyRecords ==
  LegacyAttestationsSucceeded =>
    /\ AfterAttestations.current_epoch_attestations
         = AtAttestations.current_epoch_attestations
             \o PendingRecords(SelectSeq(block.attestations, TargetsCurrentEpoch))
    /\ AfterAttestations.previous_epoch_attestations
         = AtAttestations.previous_epoch_attestations
             \o PendingRecords(SelectSeq(block.attestations, TargetsOtherEpoch))
    /\ Len(AfterAttestations.current_epoch_attestations)
         + Len(AfterAttestations.previous_epoch_attestations)
         = Len(AtAttestations.current_epoch_attestations)
             + Len(AtAttestations.previous_epoch_attestations)
             + Len(block.attestations)
    /\ AfterAttestations.balances = AtAttestations.balances

\* two attestations were recorded, one for each epoch
C16_Witness ==
  /\ LegacyAttestationsSucceeded
  /\ Len(block.attestations) = 2
  /\ Len(AfterAttestations.current_epoch_attestations) = 1
  /\ Len(AfterAttestations.previous_epoch_attestations) = 1
  /\ AfterAttestations.previous_epoch_attestations[1].inclusion_delay = 2


\* the validators common to the two attestations of an attester slashing
CommonIndices(attester_slashing) ==
  attester_slashing.attesting_indices_1 \cap attester_slashing.attesting_indices_2

\* the sum of the effective balances of a set of validators
EffectiveBalanceOf(bs, S) ==
  SumOver([i \in ValidatorIndices(bs) |-> At(bs.validators, i).effective_balance], S)

\* the arguments of the calls of slash_validator a step made
NewlyLogged(old, new) == {new[k] : k \in (Len(old) + 1)..Len(new)}

\* C17: slash_validator is applied at most once to a validator in the
\* slashing stages of a block: a proposer slashing that is applied slashes a
\* validator that was not slashed, and an attester slashing that is applied
\* slashes, of the validators common to its two attestations, all those not
\* yet slashed and none of those slashed already, by whichever kind of record.
C17_SlashedAtMostOnce ==
  /\ [](\A v \in ValidatorIndices(state.bs) : SlashCount(v) <= 1)
  /\ [][(/\ Running(state, "proposer_slashings")
         /\ state'.applied = Append(state.applied, <<"proposer_slashings", state.i>>))
          => LET v == At(block.proposer_slashings, state.i).proposer_index
             IN /\ ~At(state.bs.validators, v).slashed
                /\ At(state'.bs.validators, v).slashed
                /\ state'.bs.slashings
                     = state.bs.slashings + EffectiveBalanceOf(state.bs, {v})
       ]_vars
  /\ [][(/\ Running(state, "attester_slashings")
         /\ state'.applied = Append(state.applied, <<"attester_slashings", state.i>>))
          => LET common == CommonIndices(At(block.attester_slashings, state.i))
                 fresh == {i \in common : ~At(state.bs.validators, i).slashed}
             IN /\ fresh # {}
                /\ NewlyLogged(state.slash_log, state'.slash_log) = fresh
                /\ \A i \in fresh : At(state'.bs.validators, i).slashed
                /\ \A i \in common \ fresh :
                     At(state'.bs.validators, i) = At(state.bs.validators, i)
                /\ state'.bs.slashings
                     = state.bs.slashings + EffectiveBalanceOf(state.bs, fresh)
       ]_vars

\* an attester slashing slashed one of its two common validators, the other
\* having been slashed by a proposer slashing of the block
C17_Witness ==
  /\ OperationsRun
  /\ "attestations" \in DOMAIN state.entries
  /\ Len(block.proposer_slashings) = 1
  /\ Len(block.attester_slashings) = 1
  /\ At(block.proposer_slashings, 0).proposer_index
       \in CommonIndices(At(block.attester_slashings, 0))
  /\ Cardinality(CommonIndices(At(block.attester_slashings, 0))) = 2
  /\ Len(state.slash_log) = 2
  /\ \A v \in CommonIndices(At(block.attester_slashings, 0)) : SlashCount(v) = 1


\* the beacon state at the call of process_deposits
AtDeposits == state.entries["deposits"]

\* process_deposits is in, or has failed in, one of its verification phases
InVerification ==
  /\ OperationsRun
  /\ state.pc \in {"deposits", "deposit_proofs"}

\* C18: the count check and the Merkle proof checks of process_deposits write
\* nothing: while they run, and when process_deposits fails in one of them,
\* the beacon state is the state process_deposits was called on, whichever
\* deposit failed and however many deposits before it have a valid proof.
C18_VerificationReadOnly ==
  InVerification => state.bs = AtDeposits

\* the proof of the second deposit failed after the proof of the first had
\* been found valid
C18_Witness ==
  /\ FailedOnProof
  /\ InvalidProofs = {1}
  /\ At(state.proofs, 0) = "ok"
  /\ state.result.index = 1
  /\ state.bs.eth1_deposit_index = AtDeposits.eth1_deposit_index


\* The deposits of a list applied one at a time with
\* process_deposit(verify_merkle_proof = true), up to the first that fails.
RECURSIVE Interleaved(_, _)
Interleaved(bs, deposits) ==
  IF deposits = <<>> THEN Step(bs, OkResult)
  ELSE LET step == process_deposit(bs, Head(deposits), TRUE)
       IN IF step.result.ok THEN Interleaved(step.bs, Tail(deposits)) ELSE step

\* process_deposits was called and has returned Ok
DepositsSucceeded ==
  OperationsRun /\ "voluntary_exits" \in DOMAIN state.entries

\* the beacon state process_deposits returned
AfterDeposits == state.entries["voluntary_exits"]

\* C19: for a deposit list that passes the count check, process_deposits
\* (all proofs checked first, deposit i against deposit index d0 + i, then all
\* deposits applied in order) succeeds exactly when applying the deposits one
\* at a time with process_deposit(verify_merkle_proof = true) succeeds for
\* all of them, and then with the same final state; deposit i is applied when
\* the deposit index of the state is d0 + i, and a successful run adds the
\* number of deposits to the deposit index.
C19_VerifyThenApply ==
  /\ DepositsSucceeded =>
       /\ Interleaved(AtDeposits, block.deposits).result.ok
       /\ Interleaved(AtDeposits, block.deposits).bs = AfterDeposits
       /\ AfterDeposits.eth1_deposit_index
            = AtDeposits.eth1_deposit_index + Len(block.deposits)
  /\ FailedOnProof => ~Interleaved(AtDeposits, block.deposits).result.ok
  /\ (OperationsRun /\ state.pc = "deposit_apply") =>
       /\ ~Failed
       /\ ~state.returned =>
            state.bs.eth1_deposit_index = AtDeposits.eth1_deposit_index + state.i

\* two deposits were applied, one of them adding a validator
C19_Witness ==
  /\ DepositsSucceeded
  /\ Len(block.deposits) = 2
  /\ AfterDeposits.eth1_deposit_index = AtDeposits.eth1_deposit_index + 2
  /\ Len(AfterDeposits.validators) = Len(AtDeposits.validators) + 1


\* the index of the validator of bs that has this public key
OwnerOf(bs, pubkey) ==
  CHOOSE i \in ValidatorIndices(bs) : At(bs.validators, i).pubkey = pubkey

\* C20: a call of process_deposit on a deposit whose public key belongs to a
\* validator of the state, one that an earlier deposit of the block created
\* included, and whatever the deposit's signature, returns Ok, adds the
\* deposit amount to that validator's balance and to no other, adds 1 to the
\* deposit index and appends nothing to the validators or to the lists that
\* run parallel to them.
C20_TopUp ==
  [][(/\ AtDeposit
      /\ At(block.deposits, state.i).pubkey \in KeysOf(state.bs)
      /\ state.pc = "process_deposit"
           => At(block.deposits, state.i).proof_index = state.bs.eth1_deposit_index)
       => LET deposit == At(block.deposits, state.i)
              owner == OwnerOf(state.bs, deposit.pubkey)
          IN /\ state'.result.ok
             /\ state'.applied = Append(state.applied, <<state.pc, state.i>>)
             /\ state'.bs.balances
                  = SetAt(state.bs.balances, owner,
                          At(state.bs.balances, owner) + deposit.amount)
             /\ state'.bs.eth1_deposit_index = state.bs.eth1_deposit_index + 1
             /\ state'.bs.validators = state.bs.validators
             /\ Participation(state'.bs) = Participation(state.bs)
             /\ state'.bs.inactivity_scores = state.bs.inactivity_scores
    ]_vars

\* the second deposit of a block topped up the validator the first created
C20_Witness ==
  /\ DepositsSucceeded
  /\ Len(block.deposits) = 2
  /\ At(block.deposits, 0).pubkey = At(block.deposits, 1).pubkey
  /\ At(block.deposits, 0).pubkey \notin KeysOf(AtDeposits)
  /\ Len(AfterDeposits.validators) = Len(AtDeposits.validators) + 1
  /\ At(AfterDeposits.balances, Len(AtDeposits.validators))
       = At(block.deposits, 0).amount + At(block.deposits, 1).amount


\* the indices of the validators the deposits of the block have appended
CreatedByBlock ==
  {i \in ValidatorIndices(state.bs) : i >= Len(Before.validators)}

\* the list positions of the voluntary exits that name a validator the
\* deposits of the block appended
ExitsOfCreated ==
  {k \in 0..(Len(block.voluntary_exits) - 1) :
     At(block.voluntary_exits, k).validator_index \in CreatedByBlock}

\* C21 as claimed: a validator appended by a deposit of the block keeps the
\* far-future exit and withdrawable epochs and slashed = false, and a
\* voluntary exit of the block that names it makes the block fail with the
\* list index of that exit.
C21_ExitOfCreatedFails ==
  OperationsRun =>
    /\ \A i \in CreatedByBlock :
         /\ At(state.bs.validators, i).exit_epoch = far_future_epoch
         /\ At(state.bs.validators, i).withdrawable_epoch = far_future_epoch
         /\ ~At(state.bs.validators, i).slashed
    /\ (ExitsOfCreated # {} /\ StageReturned("voluntary_exits")) =>
         /\ Failed /\ state.pc = "voluntary_exits"
         /\ state.result.index = LeastOf(ExitsOfCreated)

\* C21, amended: a validator appended by a deposit of the block is not exited
\* by the block: it keeps the far-future exit and withdrawable epochs and
\* slashed = false through the run; a block with a voluntary exit that names
\* it fails in process_exits, at that exit or before it, with the list index
\* of the first exit that is invalid against the state as the earlier exits
\* left it; when every exit before it was applied, the exit that names the
\* new validator is rejected with its own list index and leaves the state as
\* it was.  No run with such an exit succeeds.
C21_NoExitOfCreated ==
  /\ [](OperationsRun =>
          /\ \A i \in CreatedByBlock :
               /\ At(state.bs.validators, i).exit_epoch = far_future_epoch
               /\ At(state.bs.validators, i).withdrawable_epoch = far_future_epoch
               /\ ~At(state.bs.validators, i).slashed
          /\ Succeeded => ExitsOfCreated = {}
          /\ (ExitsOfCreated # {} /\ StageReturned("voluntary_exits")) =>
               /\ Failed /\ state.pc = "voluntary_exits"
               /\ state.result.kind = "ExitInvalid"
               /\ state.result.index = NumApplied("voluntary_exits")
               /\ state.result.index <= LeastOf(ExitsOfCreated))
  /\ [][(/\ OperationsRun
         /\ Running(state, "voluntary_exits")
         /\ state.i \in ExitsOfCreated)
          => /\ state'.returned /\ ~state'.result.ok
             /\ state'.result.kind = "ExitInvalid"
             /\ state'.result.index = state.i
             /\ state'.bs = state.bs
       ]_vars

\* a deposit of the block appended a validator, a first exit was applied and
\* the second exit, which names the new validator, made the block fail
C21_Witness ==
  /\ OperationsRun /\ Failed
  /\ state.pc = "voluntary_exits"
  /\ CreatedByBlock # {}
  /\ ExitsOfCreated = {1}
  /\ NumApplied("voluntary_exits") = 1
  /\ state.result.index = 1
  /\ \A i \in CreatedByBlock :
       At(state.bs.validators, i).exit_epoch = far_future_epoch

====
